---- MODULE Spec2Model ----
(***************************************************************************)
(* Model of the single-tape deterministic Turing machine simulator         *)
(* (core/machine.py, core/machine_config.py, core/transition.py,           *)
(* core/instant_description.py).                                           *)
(*                                                                         *)
(* A Python string is modelled as a sequence of one-character strings; a   *)
(* tape symbol is a Python string, hence a sequence of characters; the     *)
(* live tape is a list of symbols and a snapshot's tape is the "".join of  *)
(* that list, i.e. the concatenation of the symbols' characters.           *)
(* Optional[int] is modelled as a set: {} is None, {n} is the integer n.   *)
(***************************************************************************)
EXTENDS Integers, Sequences, FiniteSets, TLC

\* ---- bounds of the model ------------------------------------------------
MaxRules == 2        \* rules in a machine definition
MaxInput == 2        \* characters in an input string
MaxCeiling == 2      \* largest configured step ceiling
MaxSteps == 3        \* iterations explored when no ceiling is configured

\* ---- universe the definitions are drawn from -----------------------------
StateNames == {"q0", "q1"}
InputChars == {"0", "1"}                 \* characters an input may contain
Blanks == {<<"B">>, <<"B", "B">>, <<>>}  \* candidate blank symbols "B", "BB", ""
Moves == {"L", "R", "S"}
None == {}

VARIABLES config, accept_states, blank_symbol, max_steps, transition_map,
          pc, input_string, tape, head_index, current_state, history, steps,
          accepted, ret,
          caller,   \* the collections the caller passed to MachineConfig
          error,    \* the kind of the error the last operation raised, or ""
          memo,     \* the result of one earlier call the caller has kept
          other     \* the locals of a second call of run on the same engine

vars == <<config, accept_states, blank_symbol, max_steps, transition_map,
          pc, input_string, tape, head_index, current_state, history, steps,
          accepted, ret, caller, error, memo, other>>

\* what lives outside the engine and outside the call of run modelled by pc
aux == <<caller, memo, other>>

engine == <<config, accept_states, blank_symbol, max_steps, transition_map>>

\* ---- helpers --------------------------------------------------------------
Range(s) == {s[i] : i \in DOMAIN s}

SeqsUpTo(S, n) == UNION {[1..k -> S] : k \in 0..n}

\* "".join(tape)
RECURSIVE Join(_)
Join(t) == IF t = <<>> THEN <<>> ELSE Head(t) \o Join(Tail(t))

\* Transition.signature
signature(t) == <<t.current_state, t.read_symbol>>

\* Machine._snapshot / InstantDescription
Snapshot(state, t, head) ==
    [state |-> state, tape |-> Join(t), head_position |-> head]

\* mutation: a blank cell is appended to every initial tape
InitializeTape_TrailingBlank(blank, input) ==
    [i \in 1..Len(input) |-> <<input[i]>>] \o <<blank>>

\* Machine._initialize_tape
InitializeTape(blank, input) ==
    IF input = <<>> THEN <<blank>> ELSE [i \in 1..Len(input) |-> <<input[i]>>]

\* mutation: only the first character of the input is validated
InvalidSymbols_FirstOnly(alphabet, input) ==
    {input[i] : i \in {j \in 1..Len(input) :
                         j = 1 /\ <<input[j]>> \notin Range(alphabet)}}

\* Machine._validate_input_string: the offending characters
InvalidSymbols(alphabet, input) ==
    {input[i] : i \in {j \in 1..Len(input) : <<input[j]>> \notin Range(alphabet)}}

\* mutation: growth at the left end appends the blank at the right end
MoveHead_LeftAppends(blank, head, move, t) ==
    IF move = "L"
    THEN IF head = 0
         THEN [head_index |-> 0, tape |-> Append(t, blank)]
         ELSE [head_index |-> head - 1, tape |-> t]
    ELSE IF move = "R"
         THEN IF head + 1 = Len(t)
              THEN [head_index |-> head + 1, tape |-> Append(t, blank)]
              ELSE [head_index |-> head + 1, tape |-> t]
         ELSE [head_index |-> head, tape |-> t]

\* mutation: growth at the right end inserts the blank at the left end
MoveHead_RightInserts(blank, head, move, t) ==
    IF move = "L"
    THEN IF head = 0
         THEN [head_index |-> 0, tape |-> <<blank>> \o t]
         ELSE [head_index |-> head - 1, tape |-> t]
    ELSE IF move = "R"
         THEN IF head + 1 = Len(t)
              THEN [head_index |-> head + 1, tape |-> <<blank>> \o t]
              ELSE [head_index |-> head + 1, tape |-> t]
         ELSE [head_index |-> head, tape |-> t]

\* mutation: a move to the right appends a blank wherever the head is
MoveHead_RightAlwaysAppends(blank, head, move, t) ==
    IF move = "L"
    THEN IF head = 0
         THEN [head_index |-> 0, tape |-> <<blank>> \o t]
         ELSE [head_index |-> head - 1, tape |-> t]
    ELSE IF move = "R"
         THEN [head_index |-> head + 1, tape |-> Append(t, blank)]
         ELSE [head_index |-> head, tape |-> t]

\* Machine._move_head; Python indices are 0-based, tape[i] is t[i + 1]
MoveHead(blank, head, move, t) ==
    IF move = "L"
    THEN IF head = 0
         THEN [head_index |-> 0, tape |-> <<blank>> \o t]
         ELSE [head_index |-> head - 1, tape |-> t]
    ELSE IF move = "R"
         THEN IF head + 1 = Len(t)
              THEN [head_index |-> head + 1, tape |-> Append(t, blank)]
              ELSE [head_index |-> head + 1, tape |-> t]
         ELSE [head_index |-> head, tape |-> t]

\* Transition.__post_init__: the move is a direction, the strings are non-empty
ValidTransition(t) ==
    /\ t.move \in Moves
    /\ t.current_state # ""
    /\ t.read_symbol # <<>>
    /\ t.write_symbol # <<>>
    /\ t.next_state # ""

\* mutation: a rule with a signature already in the table replaces the earlier
RECURSIVE BuildFrom_LastWins(_, _, _, _)
BuildFrom_LastWins(states, transitions, i, map) ==
    IF i > Len(transitions)
    THEN [ok |-> TRUE, map |-> map, error |-> ""]
    ELSE LET t == transitions[i]
             key == signature(t)
         IN IF t.current_state \notin states
            THEN [ok |-> FALSE, map |-> <<>>, error |-> "DanglingState"]
            ELSE IF t.next_state \notin states
            THEN [ok |-> FALSE, map |-> <<>>, error |-> "DanglingState"]
            ELSE BuildFrom_LastWins(states, transitions, i + 1,
                                    (key :> t) @@ map)

\* Machine._build_transition_map
RECURSIVE BuildFrom(_, _, _, _)
BuildFrom(states, transitions, i, map) ==
    IF i > Len(transitions)
    THEN [ok |-> TRUE, map |-> map, error |-> ""]
    ELSE LET t == transitions[i]
             key == signature(t)
         IN IF key \in DOMAIN map
            THEN [ok |-> FALSE, map |-> <<>>, error |-> "DuplicateTransition"]
            ELSE IF t.current_state \notin states
            THEN [ok |-> FALSE, map |-> <<>>, error |-> "DanglingState"]
            ELSE IF t.next_state \notin states
            THEN [ok |-> FALSE, map |-> <<>>, error |-> "DanglingState"]
            ELSE BuildFrom(states, transitions, i + 1, (key :> t) @@ map)

BuildTransitionMap(states, transitions) ==
    BuildFrom(states, transitions, 1, <<>>)

\* a Python value that is not a str (an int read from the YAML document, say),
\* as a state name and as a symbol
NonStr == "<3>"
NonStrSymbol == <<NonStr>>

\* a Python value that is not a Transition (a dict, say)
NotATransition == [raw |-> "dict"]

\* isinstance(t, Transition)
IsTransition(t) == "move" \in DOMAIN t

\* _copy_str_list: every value of the list is a str
AllStr(names) == \A i \in DOMAIN names : names[i] # NonStr
AllStrSymbols(symbols) == \A i \in DOMAIN symbols : symbols[i] # NonStrSymbol

\* mutation: the accept states are checked before the initial state
ValidateConfig_AcceptFirst(c) ==
    IF ~AllStr(c.states) THEN "strings"
    ELSE IF c.states = <<>> THEN "states"
    ELSE IF ~AllStrSymbols(c.input_alphabet) THEN "strings"
    ELSE IF ~AllStrSymbols(c.tape_alphabet) THEN "strings"
    ELSE IF ~(Range(c.input_alphabet) \subseteq Range(c.tape_alphabet))
    THEN "alphabet"
    ELSE IF ~AllStr(c.accept_states) THEN "strings"
    ELSE IF \E s \in Range(c.accept_states) : s \notin Range(c.states)
    THEN "accept_states"
    ELSE IF c.initial_state = NonStr \/ c.initial_state = ""
    THEN "initial_state"
    ELSE IF c.initial_state \notin Range(c.states) THEN "initial_state"
    ELSE IF c.blank_symbol \notin Range(c.tape_alphabet) THEN "blank_symbol"
    ELSE IF \E l \in c.inputs : ~AllStrSymbols(l) THEN "strings"
    ELSE IF \E i \in DOMAIN c.transitions : ~IsTransition(c.transitions[i])
    THEN "transitions"
    ELSE IF c.transitions = <<>> THEN "transitions"
    ELSE ""

\* MachineConfig.__post_init__: the first check that raises, "" when none
\* does; "strings" is the ValueError of _copy_str_list, every other name is the
\* violated invariant the ValueError reports
ValidateConfig(c) ==
    IF ~AllStr(c.states) THEN "strings"
    ELSE IF c.states = <<>> THEN "states"
    ELSE IF ~AllStrSymbols(c.input_alphabet) THEN "strings"
    ELSE IF ~AllStrSymbols(c.tape_alphabet) THEN "strings"
    ELSE IF ~(Range(c.input_alphabet) \subseteq Range(c.tape_alphabet))
    THEN "alphabet"
    ELSE IF ~AllStr(c.accept_states) THEN "strings"
    ELSE IF c.initial_state = NonStr \/ c.initial_state = ""
    THEN "initial_state"
    ELSE IF c.initial_state \notin Range(c.states) THEN "initial_state"
    ELSE IF \E s \in Range(c.accept_states) : s \notin Range(c.states)
    THEN "accept_states"
    ELSE IF c.blank_symbol \notin Range(c.tape_alphabet) THEN "blank_symbol"
    ELSE IF \E l \in c.inputs : ~AllStrSymbols(l) THEN "strings"
    ELSE IF \E i \in DOMAIN c.transitions : ~IsTransition(c.transitions[i])
    THEN "transitions"
    ELSE IF c.transitions = <<>> THEN "transitions"
    ELSE ""

\* ---- the machine definitions explored --------------------------------------
Symbols(blank) == {<<"0">>, blank}

\* the signatures a rule may have, in the order the definition lists its rules
KeyOrder(blank) ==
    << <<"q0", <<"0">> >>, <<"q0", blank>>, <<"q1", <<"0">> >>, <<"q1", blank>> >>

RuleBodies(blank) ==
    [write_symbol : Symbols(blank), move : Moves, next_state : StateNames]

\* the rule list with signatures keys and bodies body, listed in KeyOrder
RuleList(blank, keys, body) ==
    LET order == SelectSeq(KeyOrder(blank), LAMBDA k : k \in keys)
    IN [i \in 1..Len(order) |->
          [current_state |-> order[i][1], read_symbol |-> order[i][2],
           write_symbol |-> body[order[i]].write_symbol,
           move |-> body[order[i]].move,
           next_state |-> body[order[i]].next_state]]

KeySets(blank) ==
    {K \in SUBSET Range(KeyOrder(blank)) : Cardinality(K) \in 1..MaxRules}

AcceptLists == {<<>>, <<"q0">>, <<"q1">>, <<"q0", "q1">>}

\* MachineConfig(...) as the loader calls it
MachineConfig(blank, acc, ts) ==
    [states |-> <<"q0", "q1">>,
     input_alphabet |-> << <<"0">> >>,
     tape_alphabet |-> << <<"0">>, blank >>,
     initial_state |-> "q0",
     accept_states |-> acc,
     blank_symbol |-> blank,
     transitions |-> ts,
     inputs |-> None]

Ceilings == {None} \cup {{n} : n \in 0..MaxCeiling}

Inputs == SeqsUpTo(InputChars, MaxInput)

\* the locals of a call that has not been made
NoCall ==
    [pc |-> "idle", input_string |-> <<>>, tape |-> <<>>, head_index |-> 0,
     current_state |-> "", history |-> <<>>, steps |-> 0, accepted |-> FALSE,
     ret |-> 0]

\* ---- Machine.__init__ on a validated MachineConfig -------------------------
Init ==
    /\ \E blank \in Blanks, acc \in AcceptLists :
         \E keys \in KeySets(blank) :
           \E body \in [keys -> RuleBodies(blank)] :
             config = MachineConfig(blank, acc, RuleList(blank, keys, body))
    /\ \A i \in DOMAIN config.transitions : ValidTransition(config.transitions[i])
    /\ ValidateConfig(config) = ""
    /\ BuildTransitionMap(Range(config.states), config.transitions).ok
    /\ accept_states = Range(config.accept_states)
    /\ blank_symbol = config.blank_symbol
    /\ max_steps \in Ceilings
    /\ transition_map =
         BuildTransitionMap(Range(config.states), config.transitions).map
    /\ pc = "idle"
    /\ input_string = <<>>
    /\ tape = <<>>
    /\ head_index = 0
    /\ current_state = ""
    /\ history = <<>>
    /\ steps = 0
    /\ accepted = FALSE
    /\ ret = 0
    /\ caller = config
    /\ error = ""
    /\ memo = {}
    /\ other = NoCall

\* mutation: the initial state is not tested for acceptance
RunStart_NoImmediateAccept(input) ==
    /\ pc = "idle"
    /\ InvalidSymbols(config.input_alphabet, input) = {}
    /\ input_string' = input
    /\ tape' = InitializeTape(blank_symbol, input)
    /\ head_index' = 0
    /\ current_state' = config.initial_state
    /\ history' = <<Snapshot(config.initial_state,
                             InitializeTape(blank_symbol, input), 0)>>
    /\ steps' = 0
    /\ pc' = "loop" /\ accepted' = FALSE /\ ret' = 0
    /\ UNCHANGED <<engine, aux, error>>

\* ---- Machine.run, lines 51-68: validation, initial snapshot, immediate accept
RunInvalid(input) ==
    /\ pc = "idle"
    /\ InvalidSymbols(config.input_alphabet, input) # {}
    /\ pc' = "error"
    /\ input_string' = input
    /\ ret' = 151
    /\ error' = "InvalidSymbol"
    /\ UNCHANGED <<engine, aux, tape, head_index, current_state, history, steps,
                   accepted>>

RunStart(input) ==
    /\ pc = "idle"
    /\ InvalidSymbols(config.input_alphabet, input) = {}
    /\ input_string' = input
    /\ tape' = InitializeTape(blank_symbol, input)
    /\ head_index' = 0
    /\ current_state' = config.initial_state
    /\ history' = <<Snapshot(config.initial_state,
                             InitializeTape(blank_symbol, input), 0)>>
    /\ steps' = 0
    /\ IF config.initial_state \in accept_states
       THEN pc' = "done" /\ accepted' = TRUE /\ ret' = 68
       ELSE pc' = "loop" /\ accepted' = FALSE /\ ret' = 0
    /\ UNCHANGED <<engine, aux, error>>

\* mutation: the ceiling test is strict
CeilingReached_Strict(ceiling, n) == ceiling # None /\ \E m \in ceiling : n > m

\* mutation: the ceiling is never tested
CeilingReached_Never(ceiling, n) == FALSE

\* line 103: self._max_steps is not None and steps >= self._max_steps
CeilingReached(ceiling, n) == ceiling # None /\ \E m \in ceiling : n >= m

\* the iterations the model explores: MaxSteps without a ceiling, one more
\* than the largest ceiling with one (a run with a ceiling never gets there)
StepCap == IF max_steps = None THEN MaxSteps ELSE MaxCeiling + 1

\* line 76: the key looked up in the table
CurrentKey == <<current_state, tape[head_index + 1]>>

\* mutation: the halting configuration is recorded once more
HaltByOmission_Resnapshot ==
    /\ pc = "loop"
    /\ CurrentKey \notin DOMAIN transition_map
    /\ pc' = "done"
    /\ accepted' = FALSE
    /\ ret' = 80
    /\ history' = Append(history, Snapshot(current_state, tape, head_index))
    /\ UNCHANGED <<engine, aux, error, input_string, tape, head_index,
                   current_state, steps>>

\* mutation: the ceiling is counted down on the engine itself
ApplyTransition_CountsDownCeiling ==
    /\ pc = "loop"
    /\ steps < StepCap
    /\ CurrentKey \in DOMAIN transition_map
    /\ LET transition == transition_map[CurrentKey]
           written == [tape EXCEPT ![head_index + 1] = transition.write_symbol]
           moved == MoveHead(blank_symbol, head_index, transition.move, written)
       IN /\ tape' = moved.tape
          /\ current_state' = transition.next_state
          /\ head_index' = moved.head_index
          /\ steps' = steps + 1
          /\ history' = Append(history, Snapshot(transition.next_state,
                                                 moved.tape, moved.head_index))
          /\ max_steps' = {IF m > 0 THEN m - 1 ELSE 0 : m \in max_steps}
          /\ IF transition.next_state \in accept_states
             THEN pc' = "done" /\ accepted' = TRUE /\ ret' = 100
             ELSE IF max_steps # None /\ \E m \in max_steps : m <= 1
             THEN /\ pc' = "done"
                  /\ accepted' = (transition.next_state \in accept_states)
                  /\ ret' = 105
             ELSE pc' = "loop" /\ accepted' = FALSE /\ ret' = 0
    /\ UNCHANGED <<config, accept_states, blank_symbol, transition_map, aux,
                   error, input_string>>

\* mutation: the snapshots keep the tape list itself, not a rendering of it, so
\* every snapshot shows the tape as it is now
ApplyTransition_SnapshotsShareTape ==
    /\ pc = "loop"
    /\ steps < StepCap
    /\ CurrentKey \in DOMAIN transition_map
    /\ LET transition == transition_map[CurrentKey]
           written == [tape EXCEPT ![head_index + 1] = transition.write_symbol]
           moved == MoveHead(blank_symbol, head_index, transition.move, written)
       IN /\ tape' = moved.tape
          /\ current_state' = transition.next_state
          /\ head_index' = moved.head_index
          /\ steps' = steps + 1
          /\ history' = Append([i \in 1..Len(history) |->
                                  [history[i] EXCEPT !.tape = Join(moved.tape)]],
                               Snapshot(transition.next_state,
                                        moved.tape, moved.head_index))
          /\ IF transition.next_state \in accept_states
             THEN pc' = "done" /\ accepted' = TRUE /\ ret' = 100
             ELSE IF CeilingReached(max_steps, steps + 1)
             THEN /\ pc' = "done"
                  /\ accepted' = (transition.next_state \in accept_states)
                  /\ ret' = 105
             ELSE pc' = "loop" /\ accepted' = FALSE /\ ret' = 0
    /\ UNCHANGED <<engine, aux, error, input_string>>

\* ---- Machine.run, lines 71-105: one iteration of the step loop -------------
HaltByOmission ==
    /\ pc = "loop"
    /\ CurrentKey \notin DOMAIN transition_map
    /\ pc' = "done"
    /\ accepted' = FALSE
    /\ ret' = 80
    /\ UNCHANGED <<engine, aux, error, input_string, tape, head_index,
                   current_state, history, steps>>

\* mutation: the ceiling is tested before the accept states
ApplyTransition_CeilingBeforeAccept ==
    /\ pc = "loop"
    /\ steps < StepCap
    /\ CurrentKey \in DOMAIN transition_map
    /\ LET transition == transition_map[CurrentKey]
           written == [tape EXCEPT ![head_index + 1] = transition.write_symbol]
           moved == MoveHead(blank_symbol, head_index, transition.move, written)
       IN /\ tape' = moved.tape
          /\ current_state' = transition.next_state
          /\ head_index' = moved.head_index
          /\ steps' = steps + 1
          /\ history' = Append(history, Snapshot(transition.next_state,
                                                 moved.tape, moved.head_index))
          /\ IF CeilingReached(max_steps, steps + 1)
             THEN pc' = "done" /\ accepted' = FALSE /\ ret' = 105
             ELSE IF transition.next_state \in accept_states
             THEN pc' = "done" /\ accepted' = TRUE /\ ret' = 100
             ELSE pc' = "loop" /\ accepted' = FALSE /\ ret' = 0
    /\ UNCHANGED <<engine, aux, error, input_string>>

\* mutation: after a step the accept states are looked at only when the
\* ceiling stops the run
ApplyTransition_AcceptAtCeilingOnly ==
    /\ pc = "loop"
    /\ steps < StepCap
    /\ CurrentKey \in DOMAIN transition_map
    /\ LET transition == transition_map[CurrentKey]
           written == [tape EXCEPT ![head_index + 1] = transition.write_symbol]
           moved == MoveHead(blank_symbol, head_index, transition.move, written)
       IN /\ tape' = moved.tape
          /\ current_state' = transition.next_state
          /\ head_index' = moved.head_index
          /\ steps' = steps + 1
          /\ history' = Append(history, Snapshot(transition.next_state,
                                                 moved.tape, moved.head_index))
          /\ IF CeilingReached(max_steps, steps + 1)
             THEN /\ pc' = "done"
                  /\ accepted' = (transition.next_state \in accept_states)
                  /\ ret' = 105
             ELSE pc' = "loop" /\ accepted' = FALSE /\ ret' = 0
    /\ UNCHANGED <<engine, aux, error, input_string>>

ApplyTransition ==
    /\ pc = "loop"
    /\ steps < StepCap
    /\ CurrentKey \in DOMAIN transition_map
    /\ LET transition == transition_map[CurrentKey]
           written == [tape EXCEPT ![head_index + 1] = transition.write_symbol]
           moved == MoveHead(blank_symbol, head_index, transition.move, written)
       IN /\ tape' = moved.tape
          /\ current_state' = transition.next_state
          /\ head_index' = moved.head_index
          /\ steps' = steps + 1
          /\ history' = Append(history, Snapshot(transition.next_state,
                                                 moved.tape, moved.head_index))
          /\ IF transition.next_state \in accept_states
             THEN pc' = "done" /\ accepted' = TRUE /\ ret' = 100
             ELSE IF CeilingReached(max_steps, steps + 1)
             THEN /\ pc' = "done"
                  /\ accepted' = (transition.next_state \in accept_states)
                  /\ ret' = 105
             ELSE pc' = "loop" /\ accepted' = FALSE /\ ret' = 0
    /\ UNCHANGED <<engine, aux, error, input_string>>

\* ---- the caller takes the result (or the error); the locals of the call die
Return ==
    /\ pc \in {"done", "error"}
    /\ pc' = "idle"
    /\ input_string' = <<>>
    /\ tape' = <<>>
    /\ head_index' = 0
    /\ current_state' = ""
    /\ history' = <<>>
    /\ steps' = 0
    /\ accepted' = FALSE
    /\ ret' = 0
    /\ error' = ""
    /\ UNCHANGED <<engine, aux>>

Next ==
    \/ \E input \in Inputs : RunInvalid(input)
    \/ \E input \in Inputs : RunStart(input)
    \/ HaltByOmission
    \/ ApplyTransition
    \/ Return

Spec == Init /\ [][Next]_vars

\* run is synchronous: once called, the loop keeps iterating until it returns
FairSpec == Spec /\ WF_vars(HaltByOmission) /\ WF_vars(ApplyTransition)

\* ---- MachineConfig(...) and Machine(...) on the collections a caller passes ---
DefStateLists == {<<>>, <<"q0">>, <<"q0", "q1">>, <<NonStr>>}
DefInputAlphabets == {<< <<"0">> >>, << <<"0">>, <<"1">> >>}
DefTapeAlphabets == {<< <<"0">>, <<"B">> >>, << <<"0">> >>}
DefInitials == {"", "q0", "q1"}
DefAcceptLists == {<<>>, <<"q1">>, <<NonStr>>}
DefInputs == {None, {<< <<"0">> >>}}
DefRules ==
    [current_state : StateNames, read_symbol : {<<"0">>},
     write_symbol : {<<"0">>, <<"B">>}, move : {"R"}, next_state : StateNames]
      \cup {NotATransition}

\* the definition before MachineConfig has been called
NoConfig ==
    [states |-> <<>>, input_alphabet |-> <<>>, tape_alphabet |-> <<>>,
     initial_state |-> "", accept_states |-> <<>>, blank_symbol |-> <<>>,
     transitions |-> <<>>, inputs |-> None]

InitDef ==
    /\ \E st \in DefStateLists, ia \in DefInputAlphabets, ta \in DefTapeAlphabets,
          q \in DefInitials, acc \in DefAcceptLists, ins \in DefInputs :
         \E ts \in SeqsUpTo(DefRules, MaxRules) :
           caller = [states |-> st, input_alphabet |-> ia, tape_alphabet |-> ta,
                     initial_state |-> q, accept_states |-> acc,
                     blank_symbol |-> <<"B">>, transitions |-> ts,
                     inputs |-> ins]
    /\ config = NoConfig
    /\ accept_states = {}
    /\ blank_symbol = <<>>
    /\ max_steps = None
    /\ transition_map = <<>>
    /\ pc = "raw"
    /\ input_string = <<>>
    /\ tape = <<>>
    /\ head_index = 0
    /\ current_state = ""
    /\ history = <<>>
    /\ steps = 0
    /\ accepted = FALSE
    /\ ret = 0
    /\ error = ""
    /\ memo = {}
    /\ other = NoCall

call == <<pc, input_string, tape, head_index, current_state, history, steps,
          accepted, ret>>

\* MachineConfig.__post_init__ raises on the first failing check
NewConfigFails ==
    /\ pc = "raw"
    /\ ValidateConfig(caller) # ""
    /\ pc' = "invalid"
    /\ error' = ValidateConfig(caller)
    /\ UNCHANGED <<engine, aux, input_string, tape, head_index, current_state,
                   history, steps, accepted, ret>>

\* MachineConfig.__post_init__ passes: the definition holds copies of the
\* string lists and the rule list it was given
NewConfig ==
    /\ pc = "raw"
    /\ ValidateConfig(caller) = ""
    /\ pc' = "defined"
    /\ config' = caller
    /\ UNCHANGED <<accept_states, blank_symbol, max_steps, transition_map, aux,
                   error, input_string, tape, head_index, current_state,
                   history, steps, accepted, ret>>

\* the list fields of the definition, and those among them that __post_init__
\* leaves being the very list object the caller passed (lines 76-81 validate
\* self.transitions without copying it; the others go through _copy_str_list)
ListFields ==
    {"states", "input_alphabet", "tape_alphabet", "accept_states", "transitions"}
SharedFields == {"transitions"}

PopLast(l) == SubSeq(l, 1, Len(l) - 1)

\* the caller removes the last element of a list it passed (list.pop())
CallerPops(f) ==
    /\ pc = "defined"
    /\ caller[f] # <<>>
    /\ caller' = [caller EXCEPT ![f] = PopLast(caller[f])]
    /\ config' = IF f \in SharedFields
                 THEN [config EXCEPT ![f] = PopLast(caller[f])]
                 ELSE config
    /\ UNCHANGED <<accept_states, blank_symbol, max_steps, transition_map, memo,
                   other, error, call>>

\* the caller removes the last string of the batch inputs it passed
CallerPopsInput ==
    /\ pc = "defined"
    /\ caller.inputs # None
    /\ \A l \in caller.inputs : l # <<>>
    /\ caller' = [caller EXCEPT !.inputs = {PopLast(l) : l \in caller.inputs}]
    /\ UNCHANGED <<engine, memo, other, error, call>>

\* Machine.__init__ raises while it builds the lookup table
NewMachineFails ==
    /\ pc = "defined"
    /\ ~BuildTransitionMap(Range(config.states), config.transitions).ok
    /\ pc' = "broken"
    /\ error' = BuildTransitionMap(Range(config.states), config.transitions).error
    /\ UNCHANGED <<engine, aux, input_string, tape, head_index, current_state,
                   history, steps, accepted, ret>>

\* Machine.__init__ succeeds
NewMachine(ceiling) ==
    /\ pc = "defined"
    /\ BuildTransitionMap(Range(config.states), config.transitions).ok
    /\ pc' = "idle"
    /\ accept_states' = Range(config.accept_states)
    /\ blank_symbol' = config.blank_symbol
    /\ max_steps' = ceiling
    /\ transition_map' =
         BuildTransitionMap(Range(config.states), config.transitions).map
    /\ UNCHANGED <<config, aux, error, input_string, tape, head_index,
                   current_state, history, steps, accepted, ret>>

NextDef ==
    \/ NewConfigFails
    \/ NewConfig
    \/ \E f \in ListFields : CallerPops(f)
    \/ CallerPopsInput
    \/ NewMachineFails
    \/ \E ceiling \in Ceilings : NewMachine(ceiling)

DefSpec == InitDef /\ [][NextDef]_vars

\* ---- several calls of run on one engine, the caller keeping an earlier result -
\* mutation: the failing call leaves its first character as the blank symbol
RunInvalidNoted_SetsBlank(input) ==
    /\ pc = "idle"
    /\ InvalidSymbols(config.input_alphabet, input) # {}
    /\ pc' = "error"
    /\ input_string' = input
    /\ ret' = 151
    /\ error' = "InvalidSymbol"
    /\ blank_symbol' = <<input[1]>>
    /\ memo' = {[m EXCEPT !.failed = TRUE] : m \in memo}
    /\ UNCHANGED <<config, accept_states, max_steps, transition_map, caller,
                   other, tape, head_index, current_state, history, steps,
                   accepted>>

\* Machine.run, lines 51-52, raising; the caller notes on the result it keeps
\* that a call has failed since
RunInvalidNoted(input) ==
    /\ pc = "idle"
    /\ InvalidSymbols(config.input_alphabet, input) # {}
    /\ pc' = "error"
    /\ input_string' = input
    /\ ret' = 151
    /\ error' = "InvalidSymbol"
    /\ memo' = {[m EXCEPT !.failed = TRUE] : m \in memo}
    /\ UNCHANGED <<engine, caller, other, tape, head_index, current_state,
                   history, steps, accepted>>

\* mutation: the ceiling is a budget all calls share, the returned run's steps
\* are taken off it
Keep_SpendsCeiling ==
    /\ pc = "done"
    /\ memo' = {[input_string |-> input_string, history |-> history,
                 accepted |-> accepted, failed |-> FALSE]}
    /\ max_steps' = {IF n > steps THEN n - steps ELSE 0 : n \in max_steps}
    /\ pc' = "idle"
    /\ input_string' = <<>>
    /\ tape' = <<>>
    /\ head_index' = 0
    /\ current_state' = ""
    /\ history' = <<>>
    /\ steps' = 0
    /\ accepted' = FALSE
    /\ ret' = 0
    /\ error' = ""
    /\ UNCHANGED <<config, accept_states, blank_symbol, transition_map, caller,
                   other>>

\* run returns and the caller keeps the trace and the verdict it got
Keep ==
    /\ pc = "done"
    /\ memo' = {[input_string |-> input_string, history |-> history,
                 accepted |-> accepted, failed |-> FALSE]}
    /\ pc' = "idle"
    /\ input_string' = <<>>
    /\ tape' = <<>>
    /\ head_index' = 0
    /\ current_state' = ""
    /\ history' = <<>>
    /\ steps' = 0
    /\ accepted' = FALSE
    /\ ret' = 0
    /\ error' = ""
    /\ UNCHANGED <<engine, caller, other>>

NextDet ==
    \/ \E input \in Inputs : RunInvalidNoted(input)
    \/ \E input \in Inputs : RunStart(input)
    \/ HaltByOmission
    \/ ApplyTransition
    \/ Return
    \/ Keep

\* the engines whose ceiling is absent or the largest one
InitDet ==
    /\ Init
    /\ max_steps \in {None, {MaxCeiling}}

DetSpec == InitDet /\ [][NextDet]_vars

\* ---- two calls of run on one engine at once: the second call's locals -------
\* the locals of the first call, as one record
Mine ==
    [pc |-> pc, input_string |-> input_string, tape |-> tape,
     head_index |-> head_index, current_state |-> current_state,
     history |-> history, steps |-> steps, accepted |-> accepted, ret |-> ret]

\* Machine.run, lines 54-68: the locals after the initial snapshot
StartOf(input) ==
    LET t == InitializeTape(blank_symbol, input)
        halt == config.initial_state \in accept_states
    IN [pc |-> IF halt THEN "done" ELSE "loop",
        input_string |-> input,
        tape |-> t,
        head_index |-> 0,
        current_state |-> config.initial_state,
        history |-> <<Snapshot(config.initial_state, t, 0)>>,
        steps |-> 0,
        accepted |-> halt,
        ret |-> IF halt THEN 68 ELSE 0]

\* line 73: key = (current_state, current_symbol)
KeyOf(c) == <<c.current_state, c.tape[c.head_index + 1]>>

\* Machine.run, lines 71-105: the locals after one iteration of the loop
IterationOf(c) ==
    LET key == KeyOf(c)
    IN IF key \notin DOMAIN transition_map
       THEN [c EXCEPT !.pc = "done", !.accepted = FALSE, !.ret = 80]
       ELSE LET transition == transition_map[key]
                written == [c.tape EXCEPT ![c.head_index + 1] =
                                             transition.write_symbol]
                moved == MoveHead(blank_symbol, c.head_index, transition.move,
                                  written)
                halt == transition.next_state \in accept_states
                stop == CeilingReached(max_steps, c.steps + 1)
            IN [pc |-> IF halt \/ stop THEN "done" ELSE "loop",
                input_string |-> c.input_string,
                tape |-> moved.tape,
                head_index |-> moved.head_index,
                current_state |-> transition.next_state,
                history |-> Append(c.history,
                                   Snapshot(transition.next_state, moved.tape,
                                            moved.head_index)),
                steps |-> c.steps + 1,
                accepted |-> halt,
                ret |-> IF halt THEN 100 ELSE IF stop THEN 105 ELSE 0]

Stepping(c) ==
    /\ c.pc = "loop"
    /\ \/ c.steps < StepCap
       \/ KeyOf(c) \notin DOMAIN transition_map

OtherStart(input) ==
    /\ other.pc = "idle"
    /\ InvalidSymbols(config.input_alphabet, input) = {}
    /\ other' = StartOf(input)
    /\ UNCHANGED <<engine, caller, memo, error, pc, input_string, tape,
                   head_index, current_state, history, steps, accepted, ret>>

\* mutation: the trace is a list the engine owns, every call appends to it
OtherIteration_SharedTrace ==
    /\ Stepping(other)
    /\ other' = IterationOf(other)
    /\ history' = IF pc = "loop"
                  THEN Append(history, other'.history[Len(other'.history)])
                  ELSE history
    /\ UNCHANGED <<engine, caller, memo, error, pc, input_string, tape,
                   head_index, current_state, steps, accepted, ret>>

OtherIteration ==
    /\ Stepping(other)
    /\ other' = IterationOf(other)
    /\ UNCHANGED <<engine, caller, memo, error, pc, input_string, tape,
                   head_index, current_state, history, steps, accepted, ret>>

NextConc ==
    \/ \E input \in Inputs : RunInvalid(input)
    \/ \E input \in Inputs : RunStart(input)
    \/ HaltByOmission
    \/ ApplyTransition
    \/ Return
    \/ \E input \in Inputs : OtherStart(input)
    \/ OtherIteration

\* the engines with the largest ceiling
InitConc ==
    /\ Init
    /\ max_steps = {MaxCeiling}

ConcSpec == InitConc /\ [][NextConc]_vars

\* ---- engines whose rules may write a symbol the tape alphabet does not list --
\* a symbol outside every tape alphabet explored
ForeignSymbol == <<"X">>

AnyRuleBodies(blank) ==
    [write_symbol : Symbols(blank) \cup {ForeignSymbol}, move : Moves,
     next_state : StateNames]

\* Machine.__init__ on a validated MachineConfig with blank "B"
InitAnyRule ==
    /\ \E acc \in AcceptLists :
         \E keys \in KeySets(<<"B">>) :
           \E body \in [keys -> AnyRuleBodies(<<"B">>)] :
             config = MachineConfig(<<"B">>, acc, RuleList(<<"B">>, keys, body))
    /\ \A i \in DOMAIN config.transitions : ValidTransition(config.transitions[i])
    /\ ValidateConfig(config) = ""
    /\ BuildTransitionMap(Range(config.states), config.transitions).ok
    /\ accept_states = Range(config.accept_states)
    /\ blank_symbol = config.blank_symbol
    /\ max_steps \in Ceilings
    /\ transition_map =
         BuildTransitionMap(Range(config.states), config.transitions).map
    /\ pc = "idle"
    /\ input_string = <<>>
    /\ tape = <<>>
    /\ head_index = 0
    /\ current_state = ""
    /\ history = <<>>
    /\ steps = 0
    /\ accepted = FALSE
    /\ ret = 0
    /\ caller = config
    /\ error = ""
    /\ memo = {}
    /\ other = NoCall

AnyRuleSpec == InitAnyRule /\ [][Next]_vars

\* ---- properties -------------------------------------------------------------
Last(s) == s[Len(s)]

\* the head index a move prescribes from head index h
HeadAfter(move, h) ==
    IF move = "L" THEN (IF h = 0 THEN 0 ELSE h - 1)
    ELSE IF move = "R" THEN h + 1 ELSE h

\* snapshot d follows snapshot c by the rule the table holds for c: the cells
\* are the characters of the snapshots' tape texts
SnapshotStep(c, d) ==
    /\ c.head_position < Len(c.tape)
    /\ LET key == <<c.state, <<c.tape[c.head_position + 1]>> >>
       IN /\ key \in DOMAIN transition_map
          /\ LET r == transition_map[key]
                 shift == IF r.move = "L" /\ c.head_position = 0 THEN 1 ELSE 0
             IN /\ d.state = r.next_state
                /\ Len(d.tape) >= Len(c.tape) + shift
                /\ r.write_symbol = <<d.tape[c.head_position + 1 + shift]>>
                /\ \A j \in 1..Len(c.tape) :
                     j # c.head_position + 1 => d.tape[j + shift] = c.tape[j]
                /\ d.head_position = HeadAfter(r.move, c.head_position)

\* C1: every pair of consecutive snapshots of the trace is related by the
\* table's rule for the first one's (state, symbol under the head): destination
\* state, written cell, all other cells unchanged (shifted by one on a leftward
\* growth), head moved as the rule prescribes.
C1_ConsecutiveSnapshots ==
    \A i \in 1..(Len(history) - 1) : SnapshotStep(history[i], history[i + 1])

\* C2: halt by omission: from a configuration whose (state, symbol) pair has no
\* table entry the run returns rejected, the trace and the tape are left as
\* they are, and the trace ends with the snapshot of that configuration.
C2_HaltByOmission ==
    [][(pc = "loop" /\ CurrentKey \notin DOMAIN transition_map)
         => /\ pc' = "done"
            /\ accepted' = FALSE
            /\ history' = history
            /\ tape' = tape
            /\ Last(history') = Snapshot(current_state, tape, head_index)
            /\ Len(history') = steps' + 1]_vars

C2_Witness ==
    pc = "done" /\ ret = 80 /\ steps >= 2 /\ ~accepted

\* C3: when the initial state is an accept state, run enters no iteration of
\* the step loop and returns exactly the initial snapshot with verdict
\* accepted, whatever the rules and the ceiling.
C3_ImmediateAccept ==
    config.initial_state \in Range(config.accept_states)
      => /\ pc # "loop"
         /\ pc = "done" => /\ accepted
                           /\ steps = 0
                           /\ Len(history) = 1
                           /\ ret = 68

C3_Witness ==
    /\ pc = "done"
    /\ config.initial_state \in Range(config.accept_states)
    /\ max_steps = {0}
    /\ Len(input_string) = MaxInput
    /\ <<"q0", <<"0">> >> \in DOMAIN transition_map

\* C4: with a ceiling N >= 0 configured, a run applies at most N transitions
\* and its trace has at most N + 1 snapshots.
C4_AtMostCeilingSteps ==
    \A n \in max_steps : n >= 0 => (steps <= n /\ Len(history) <= n + 1)

\* C5: with a ceiling N >= 1, a run that has applied N transitions has stopped
\* with N + 1 snapshots; no run applies more; and unless the N-th transition
\* entered an accept state the verdict is rejected.
C5_ExactlyCeilingSteps ==
    \A n \in max_steps :
      n >= 1 => /\ steps <= n
                /\ pc = "loop" => steps < n
                /\ ret = 105 => (steps = n /\ ~accepted)
                /\ steps = n => /\ pc = "done"
                                /\ Len(history) = n + 1
                                /\ ret \in {100, 105}
                                /\ ret = 105 <=> current_state \notin accept_states

C5_Witness ==
    pc = "done" /\ ret = 105 /\ max_steps = {MaxCeiling} /\ steps = MaxCeiling

\* C6: with a finite ceiling every run that has entered the step loop returns,
\* by accept, by halt by omission or by the ceiling.
C6_Terminates ==
    (pc = "loop" /\ max_steps # None)
      ~> (pc = "done" /\ ret \in {80, 100, 105} /\ Len(history) = steps + 1)

C6_Witness ==
    /\ pc = "done"
    /\ ret = 105
    /\ max_steps = {MaxCeiling}
    /\ Len(tape) > Len(InitializeTape(blank_symbol, input_string))

\* C7: the first snapshot of every trace is the initial configuration: the
\* definition's initial state, head index 0, and as tape the input's characters
\* in order, or the blank symbol alone when the input is empty; it is there
\* whether or not the run went on to accept at once.
C7_FirstSnapshot ==
    pc \in {"loop", "done"}
      => /\ Len(history) >= 1
         /\ history[1].state = config.initial_state
         /\ history[1].head_position = 0
         /\ history[1].tape = IF input_string = <<>> THEN config.blank_symbol
                              ELSE input_string

C7_Witness ==
    /\ pc = "done"
    /\ Len(history) >= 3
    /\ Len(input_string) = MaxInput
    /\ Last(history).tape # history[1].tape
    /\ Last(history).state # history[1].state

\* C8: leftward growth: applying a Left rule with the head at index 0 makes the
\* tape one cell longer, leaves the head at index 0 on a new blank cell, and
\* puts every former cell, the one just written included, one place further
\* right in the same order.
C8_LeftwardGrowth ==
    [][(pc = "loop" /\ CurrentKey \in DOMAIN transition_map
          /\ transition_map[CurrentKey].move = "L" /\ head_index = 0)
         => /\ Len(tape') = Len(tape) + 1
            /\ head_index' = 0
            /\ tape'[1] = blank_symbol
            /\ tape'[2] = transition_map[CurrentKey].write_symbol
            /\ \A j \in 2..Len(tape) : tape'[j + 1] = tape[j]]_vars

C8_Witness ==
    /\ pc = "loop"
    /\ steps = 1
    /\ Len(input_string) = MaxInput
    /\ head_index = 0
    /\ Len(tape) = Len(input_string) + 1
    /\ tape[1] = blank_symbol
    /\ tape[2] # blank_symbol

\* C9: rightward growth: applying a Right rule with the head at the last index
\* makes the tape one cell longer, the new last cell is blank, the head is at
\* the new last index, and every former cell keeps its position (the one under
\* the head holding the symbol just written).
C9_RightwardGrowth ==
    [][(pc = "loop" /\ CurrentKey \in DOMAIN transition_map
          /\ transition_map[CurrentKey].move = "R"
          /\ head_index = Len(tape) - 1)
         => /\ Len(tape') = Len(tape) + 1
            /\ tape'[Len(tape')] = blank_symbol
            /\ head_index' = Len(tape') - 1
            /\ tape'[head_index + 1] = transition_map[CurrentKey].write_symbol
            /\ \A j \in 1..Len(tape) :
                 j # head_index + 1 => tape'[j] = tape[j]]_vars

C9_Witness ==
    /\ pc = "loop"
    /\ steps = 2
    /\ Len(input_string) = MaxInput
    /\ head_index = MaxInput
    /\ Len(tape) = MaxInput + 1
    /\ tape[Len(tape)] = blank_symbol

\* the step from the current configuration overruns an end of the tape
Overruns ==
    \/ transition_map[CurrentKey].move = "L" /\ head_index = 0
    \/ transition_map[CurrentKey].move = "R" /\ head_index = Len(tape) - 1

\* C10: a Stay rule changes neither the head index nor the tape length; a step
\* of the loop changes the tape length only when the head moves Left from index
\* 0 or Right from the last index, and then by exactly one cell more.
C10_StayAndLength ==
    [][pc = "loop"
         => IF CurrentKey \in DOMAIN transition_map
            THEN /\ transition_map[CurrentKey].move = "S"
                      => (head_index' = head_index /\ Len(tape') = Len(tape))
                 /\ Len(tape') = Len(tape) + (IF Overruns THEN 1 ELSE 0)
            ELSE Len(tape') = Len(tape) /\ head_index' = head_index]_vars

C10_Witness ==
    /\ pc = "loop"
    /\ steps = 2
    /\ Len(history) = 3
    /\ history[2].head_position = 1
    /\ history[3].head_position = 1
    /\ Len(tape) = Len(input_string)
    /\ Len(input_string) = MaxInput

\* C11: an input with a character outside the input alphabet makes run fail
\* with InvalidSymbol before anything is simulated: no snapshot, no tape, no
\* step and no verdict, also when the initial state is an accept state; and no
\* call that got as far as a snapshot or a verdict had such an input.
C11_InvalidSymbolFirst ==
    LET outside == \E i \in 1..Len(input_string) :
                      \A j \in DOMAIN config.input_alphabet :
                         config.input_alphabet[j] # <<input_string[i]>>
    IN /\ pc = "error" => /\ outside
                          /\ error = "InvalidSymbol"
                          /\ history = <<>>
                          /\ tape = <<>>
                          /\ steps = 0
                          /\ ~accepted
       /\ pc \in {"loop", "done"} => ~outside

C11_Witness ==
    /\ pc = "error"
    /\ error = "InvalidSymbol"
    /\ config.initial_state \in Range(config.accept_states)
    /\ Len(input_string) = MaxInput
    /\ input_string[1] = "0"

\* C12: a call failing with InvalidSymbol changes nothing of the engine, and a
\* call on a valid input made after it returns the trace and the verdict that
\* the same input got before the failing call.
C12_RetryAfterInvalidSymbol ==
    /\ [][pc' = "error" => engine' = engine]_vars
    /\ [](pc = "done"
            => \A m \in memo :
                 (m.failed /\ m.input_string = input_string)
                   => (m.history = history /\ m.accepted = accepted))

C12_Witness ==
    /\ pc = "done"
    /\ steps >= 2
    /\ \E m \in memo : /\ m.failed
                       /\ m.input_string = input_string
                       /\ Len(m.history) >= 3

\* C13: determinism: whatever calls were made in between, a call of run
\* returns the trace and the verdict an earlier call on the same engine got for
\* the same input.
C13_Deterministic ==
    pc = "done"
      => \A m \in memo :
           m.input_string = input_string
             => (m.history = history /\ m.accepted = accepted)

C13_Witness ==
    /\ pc = "done"
    /\ ret = 105
    /\ \E m \in memo : /\ m.input_string = input_string
                       /\ Len(m.history) = MaxCeiling + 1
                       /\ ~m.failed

Check1(c) == c.states # <<>>
Check2(c) == \A i \in DOMAIN c.input_alphabet :
                \E j \in DOMAIN c.tape_alphabet :
                   c.tape_alphabet[j] = c.input_alphabet[i]
Check3(c) == /\ c.initial_state # ""
             /\ \E i \in DOMAIN c.states : c.states[i] = c.initial_state
Check4(c) == \A i \in DOMAIN c.accept_states :
                \E j \in DOMAIN c.states : c.states[j] = c.accept_states[i]
Check5(c) == \E j \in DOMAIN c.tape_alphabet :
                c.tape_alphabet[j] = c.blank_symbol
Check6(c) == /\ c.transitions # <<>>
             /\ \A i \in DOMAIN c.transitions : IsTransition(c.transitions[i])

EarliestViolated(c) ==
    IF ~Check1(c) THEN "states"
    ELSE IF ~Check2(c) THEN "alphabet"
    ELSE IF ~Check3(c) THEN "initial_state"
    ELSE IF ~Check4(c) THEN "accept_states"
    ELSE IF ~Check5(c) THEN "blank_symbol"
    ELSE IF ~Check6(c) THEN "transitions"
    ELSE ""

\* every list of names and symbols the caller passed holds strings only
WellTyped(c) ==
    /\ \A i \in DOMAIN c.states : c.states[i] # NonStr
    /\ \A i \in DOMAIN c.accept_states : c.accept_states[i] # NonStr
    /\ \A i \in DOMAIN c.input_alphabet : c.input_alphabet[i] # NonStrSymbol
    /\ \A i \in DOMAIN c.tape_alphabet : c.tape_alphabet[i] # NonStrSymbol
    /\ \A l \in c.inputs : \A i \in DOMAIN l : l[i] # NonStrSymbol

\* C15 as claimed: constructing a definition fails with the error of the
\* earliest violated of the six checks, and succeeds only when all six hold.
C15_SixChecksInOrder ==
    [][pc = "raw"
         => \/ /\ pc' = "invalid"
               /\ EarliestViolated(caller) # ""
               /\ error' = EarliestViolated(caller)
            \/ /\ pc' = "defined"
               /\ EarliestViolated(caller) = ""
               /\ EarliestViolated(config') = ""]_vars

\* C15 as amended: the same for collections that hold strings only; a
\* collection with a non-string element makes the construction fail as well.
C15_SixChecksInOrderOfStrings ==
    [][pc = "raw"
         => IF WellTyped(caller)
            THEN \/ /\ pc' = "invalid"
                    /\ EarliestViolated(caller) # ""
                    /\ error' = EarliestViolated(caller)
                 \/ /\ pc' = "defined"
                    /\ EarliestViolated(caller) = ""
                    /\ EarliestViolated(config') = ""
            ELSE pc' = "invalid"]_vars

C15_Witness ==
    /\ pc = "invalid"
    /\ error = "initial_state"
    /\ WellTyped(caller)
    /\ Check1(caller) /\ Check2(caller)
    /\ ~Check3(caller) /\ ~Check4(caller) /\ ~Check5(caller) /\ ~Check6(caller)

\* C16: once the definition is constructed, a change to a collection the caller
\* passed leaves the definition's contents as they were.
C16_DefensiveCopies ==
    [][(pc = "defined" /\ caller' # caller) => config' = config]_vars

\* C17: no step of run, successful or failing, changes the engine: the lookup
\* table, the accept-state set, the blank symbol, the step ceiling and the
\* machine definition are after every step what they were before it.
C17_EngineUnchanged ==
    [][/\ transition_map' = transition_map
       /\ accept_states' = accept_states
       /\ blank_symbol' = blank_symbol
       /\ max_steps' = max_steps
       /\ config' = config]_vars

C17_Witness ==
    /\ pc = "done"
    /\ ret = 105
    /\ steps = MaxCeiling
    /\ max_steps = {MaxCeiling}
    /\ Join(tape) # input_string
    /\ Len(config.transitions) = MaxRules

\* C18: two calls of run on one engine, their steps interleaved in any order:
\* a step of one call leaves the other call's tape, head, state and trace (and
\* the engine) as they were and is the step the call makes from its own locals
\* alone, so the traces of two calls on the same input agree snapshot by
\* snapshot and both calls return the same verdict.
C18_IndependentRuns ==
    /\ [][/\ other' # other => (Mine' = Mine /\ engine' = engine)
          /\ (other' # other /\ other.pc = "loop") => other' = IterationOf(other)
          /\ Mine' # Mine => (other' = other /\ engine' = engine)
          /\ (Mine' # Mine /\ pc = "loop") => Mine' = IterationOf(Mine)
          /\ (Mine' # Mine /\ pc = "idle" /\ pc' # "error")
               => Mine' = StartOf(input_string')]_vars
    /\ []((pc \in {"loop", "done"} /\ other.pc \in {"loop", "done"}
             /\ other.input_string = input_string)
            => /\ \A i \in DOMAIN history \cap DOMAIN other.history :
                    history[i] = other.history[i]
               /\ (pc = "done" /\ other.pc = "done")
                    => (other.accepted = accepted /\ other.history = history))

C18_Witness ==
    /\ pc = "loop"
    /\ other.pc = "loop"
    /\ other.input_string = input_string
    /\ steps = MaxCeiling - 1
    /\ other.steps = 0
    /\ Len(history) = MaxCeiling

\* C19: the trace is append-only: a step of the loop leaves the trace as it is
\* or appends one snapshot to it, so the trace before the step is a prefix of
\* the trace after it, whatever the step wrote on the tape.
C19_AppendOnly ==
    [][pc = "loop"
         => \/ history' = history
            \/ /\ Len(history') = Len(history) + 1
               /\ SubSeq(history', 1, Len(history)) = history]_vars

C19_Witness ==
    /\ pc \in {"loop", "done"}
    /\ Len(history) >= 3
    /\ history[1].tape = input_string
    /\ history[2].tape # history[1].tape
    /\ history[3].tape # history[2].tape
    /\ history[3].tape # history[1].tape

\* C20: in every snapshot of the trace the head index is non-negative and less
\* than the length of the snapshot's tape, and so is the head index against the
\* tape whenever the loop is about to read the cell under the head.
C20_HeadInBounds ==
    /\ \A i \in 1..Len(history) :
         /\ history[i].head_position >= 0
         /\ history[i].head_position < Len(history[i].tape)
    /\ pc = "loop" => (head_index >= 0 /\ head_index < Len(tape))

\* C21: for every run that returns, whatever made it halt (immediate accept,
\* accept after a step, halt by omission, step ceiling), the verdict is
\* accepted if and only if the state of the last snapshot of the trace is an
\* accept state.
C21_VerdictIsLastState ==
    pc = "done"
      => /\ ret \in {68, 80, 100, 105}
         /\ accepted <=> (Last(history).state \in Range(config.accept_states))

C21_Witness ==
    /\ pc = "done"
    /\ ret = 105
    /\ steps = MaxCeiling
    /\ ~accepted
    /\ Last(history).state = "q0"
    /\ Range(config.accept_states) = {"q1"}

\* C22: an accept state appears only in the last snapshot of a trace: every
\* snapshot followed by another one has a non-accepting state, and no
\* transition is applied from an accept state.
C22_AcceptOnlyLast ==
    /\ [](\A i \in 1..(Len(history) - 1) :
            history[i].state \notin Range(config.accept_states))
    /\ [][steps' = steps + 1
            => current_state \notin Range(config.accept_states)]_vars

C22_Witness ==
    /\ pc = "done"
    /\ Len(history) = MaxSteps + 1
    /\ Last(history).state \in Range(config.accept_states)
    /\ max_steps = None

\* C23: in an engine built from a definition that passed validation, every
\* cell of the tape holds a symbol of the definition's tape alphabet at every
\* point where run takes a snapshot of it.
C23_TapeOverAlphabet ==
    pc \in {"loop", "done"}
      => \A i \in DOMAIN tape : tape[i] \in Range(config.tape_alphabet)

TypeOK ==
    /\ pc \in {"idle", "loop", "done", "error"}
    /\ head_index \in Nat
    /\ steps \in Nat
    /\ accepted \in BOOLEAN
    /\ ret \in {0, 68, 80, 100, 105, 151}
====
